---- MODULE Spec2Model ----
(***************************************************************************)
(* Model of src/utils.py: the nearest-point projection, the optimizer and  *)
(* scheduler factories, best-model saving, periodic checkpointing and the  *)
(* shared logger.                                                          *)
(***************************************************************************)
EXTENDS Integers, Sequences, FiniteSets, TLC

VARIABLES
    pc,         \* position of the modelled process
    Vs, Vt,     \* projection: the two point sets (tensors with a shape)
    res,        \* projection: what the call produced
    df_hist,    \* training: the val_loss column of the history, one row per epoch
    epoch,      \* training: 0-based number of the epoch just trained
    saveEpoch,  \* training: the checkpoint period of the configuration, or None
    files,      \* training: the files under model_path, name -> epoch of the weights
    cfg,        \* factories: the configuration [optim, trueWD, lrSched]
    opt,        \* factories: what make_optimizer produced
    sched,      \* factories: what make_lr_scheduler produced
    loggerDict, \* logging: the loggers the process has created, name -> object
    handlers,   \* logging: file names of the handlers attached to "logger"
    rootHandlers, \* logging: number of handlers on the root logger
    level,      \* logging: level of "logger"
    calls,      \* logging: the PATH of every make_logger call so far
    returned    \* logging: the object every make_logger call returned

projVars == <<Vs, Vt, res>>
trainVars == <<df_hist, epoch, saveEpoch, files>>
optVars == <<cfg, opt, sched>>
logVars == <<loggerDict, handlers, rootHandlers, level, calls, returned>>
vars == <<pc, projVars, trainVars, optVars, logVars>>

\* Python's None, and a value that is present: a 0- or 1-element tuple.
None == <<>>
Some(x) == <<x>>

(***************************************************************************)
(* Bounds of the projection inputs.                                        *)
(***************************************************************************)
MaxN == 2
MaxD == 2
MaxCoord == 1

Coord == (0 - MaxCoord)..MaxCoord

\* A 2-D tensor of shape (n, d): n points of d coordinates each.
Tensors ==
    UNION { { [n |-> n, d |-> d, pts |-> p] : p \in [1..n -> [1..d -> Coord]] }
            : <<n, d>> \in (0..MaxN) \X (1..MaxD) }

(***************************************************************************)
(* The names the module-level calls of projection look up on torch, and    *)
(* the ones the torch module provides.  torch has Tensor.repeat, torch.sum *)
(* and torch.gather, but no attribute repeat, reduce_sum, to_int32 or      *)
(* gather_nd: those are the names of another tensor library.               *)
(***************************************************************************)
TorchAttrs == {"sqrt", "argmin", "stack", "range"}

\* Fixed-point image of the float square root, SqrtScale units per 1.0.
SqrtScale == 100

Sqrt(x) ==
    CHOOSE r \in 0..(SqrtScale * (x + 1)) :
        /\ r * r <= x * SqrtScale * SqrtScale
        /\ (r + 1) * (r + 1) > x * SqrtScale * SqrtScale

RECURSIVE SumSeq(_)
SumSeq(s) == IF s = <<>> THEN 0 ELSE Head(s) + SumSeq(Tail(s))

\* Elementwise a - b over the last axis with broadcasting: equal sizes, or a
\* size of 1 that is stretched to the other size.
BroadcastOk(da, db) == da = db \/ da = 1 \/ db = 1

Bsub(a, b) ==
    LET d == IF Len(a) >= Len(b) THEN Len(a) ELSE Len(b)
        at(v, k) == IF Len(v) = 1 THEN v[1] ELSE v[k]
    IN  [k \in 1..d |-> at(a, k) - at(b, k)]

\* dist[i][j] = sqrt(sum_k (Vt[j][k] - Vs[i][k])^2), lines 22-25.
DistMatrix(S, T) ==
    [i \in 1..S.n |->
        [j \in 1..T.n |->
            LET diff == Bsub(T.pts[j], S.pts[i])
            IN  Sqrt(SumSeq([k \in 1..Len(diff) |-> diff[k] * diff[k]]))]]

\* argmin over a row: the first index holding the row's minimum.
ArgMin(row) ==
    CHOOSE j \in 1..Len(row) :
        /\ \A k \in 1..Len(row) : row[j] <= row[k]
        /\ \A k \in 1..(j - 1) : row[k] > row[j]

NoResult == [err |-> "none", proj |-> <<>>, minDist |-> <<>>]
Raise(e) == [err |-> e, proj |-> <<>>, minDist |-> <<>>]

\* projection(Vs, Vt), statement by statement.  A call torch.f(args) looks f
\* up on the module before it evaluates args, so the first statement that
\* calls into torch, line 22, ends the call when torch has no such attribute.
projection(S, T) ==
    IF "repeat" \notin TorchAttrs THEN Raise("AttributeError")              \* 22, 23
    ELSE IF ~BroadcastOk(S.d, T.d) THEN Raise("DimensionMismatch")          \* 24
    ELSE IF ~({"sqrt", "reduce_sum"} \subseteq TorchAttrs)
         THEN Raise("AttributeError")                                       \* 25
    ELSE IF ~({"to_int32", "argmin"} \subseteq TorchAttrs)
         THEN Raise("AttributeError")                                       \* 26
    ELSE IF T.n = 0 THEN Raise("EmptyTarget")                               \* 26
    ELSE IF ~({"gather_nd", "stack", "range"} \subseteq TorchAttrs)
         THEN Raise("AttributeError")                                       \* 27, 28
    ELSE LET dist == DistMatrix(S, T)
             idx == [i \in 1..S.n |-> ArgMin(dist[i])]
         IN  [err |-> "none",
              proj |-> [i \in 1..S.n |-> T.pts[idx[i]]],
              minDist |-> [i \in 1..S.n |-> dist[i][idx[i]]]]

\* The state of the parts of the module a specification does not exercise.
IdleProj == Vs = <<>> /\ Vt = <<>> /\ res = NoResult
IdleTrain == df_hist = <<>> /\ epoch = 0 /\ saveEpoch = None /\ files = <<>>
IdleOpt == cfg = None /\ opt = None /\ sched = None
IdleLog ==
    /\ loggerDict = <<>> /\ handlers = <<>> /\ rootHandlers = 0
    /\ level = "NOTSET" /\ calls = <<>> /\ returned = <<>>

InitProj ==
    /\ pc = "call"
    /\ Vs \in Tensors
    /\ Vt \in Tensors
    /\ res = NoResult
    /\ IdleTrain /\ IdleOpt /\ IdleLog

Projection ==
    /\ pc = "call"
    /\ res' = projection(Vs, Vt)
    /\ pc' = "returned"
    /\ UNCHANGED <<Vs, Vt, trainVars, optVars, logVars>>

NextProj == Projection

SpecProj == InitProj /\ [][NextProj]_vars

(***************************************************************************)
(* Claims about projection.                                                *)
(***************************************************************************)
ProjReturned == pc = "returned"
SameDim == Vs.d = Vt.d
WellFormed == ProjReturned /\ SameDim /\ Vt.n > 0

\* The Euclidean distance between two points of the same dimensionality.
EuclideanDistance(p, q) ==
    Sqrt(SumSeq([k \in 1..Len(p) |-> (p[k] - q[k]) * (p[k] - q[k])]))

\* The lowest target index at the least distance from source point i.
FirstNearest(i) ==
    CHOOSE j \in 1..Vt.n :
        /\ \A k \in 1..Vt.n :
               EuclideanDistance(Vs.pts[i], Vt.pts[j])
                   <= EuclideanDistance(Vs.pts[i], Vt.pts[k])
        /\ \A k \in 1..(j - 1) :
               EuclideanDistance(Vs.pts[i], Vt.pts[k])
                   > EuclideanDistance(Vs.pts[i], Vt.pts[j])

\* C1: for a non-empty target of the source's dimensionality the call returns,
\* for every source index i, a point proj[i] of the target, the distance
\* minDist[i] between source[i] and proj[i], and no target point is nearer.
C1_NearestPoint ==
    WellFormed =>
        /\ res.err = "none"
        /\ DOMAIN res.proj = 1..Vs.n /\ DOMAIN res.minDist = 1..Vs.n
        /\ \A i \in 1..Vs.n :
            /\ \E j \in 1..Vt.n : res.proj[i] = Vt.pts[j]
            /\ res.minDist[i] = EuclideanDistance(Vs.pts[i], res.proj[i])
            /\ \A j \in 1..Vt.n :
                   res.minDist[i] <= EuclideanDistance(Vs.pts[i], Vt.pts[j])

\* C2: among target points at the same least distance the one with the lowest
\* index is the match.
C2_TieLowestIndex ==
    (WellFormed /\ Vs.n > 0) =>
        /\ res.err = "none"
        /\ DOMAIN res.proj = 1..Vs.n
        /\ \A i \in 1..Vs.n : res.proj[i] = Vt.pts[FirstNearest(i)]

\* C3: for a non-empty target the call returns one matched point and one
\* distance per source point; an empty source gives two empty outputs and no
\* error.
C3_OnePerSource ==
    WellFormed =>
        /\ res.err = "none"
        /\ Len(res.proj) = Vs.n
        /\ Len(res.minDist) = Vs.n

\* C4: source and target of different dimensionality end the call with
\* DimensionMismatch and no result, also when one dimensionality is 1.
C4_DimensionMismatch ==
    (ProjReturned /\ ~SameDim) => res = Raise("DimensionMismatch")

\* C5: an empty target with a non-empty source ends the call with EmptyTarget
\* and no result.
C5_EmptyTarget ==
    (ProjReturned /\ SameDim /\ Vt.n = 0 /\ Vs.n > 0)
        => res = Raise("EmptyTarget")

(***************************************************************************)
(* Training: save_best_model and checkpoint_model, called once after every *)
(* epoch with the history so far.                                          *)
(***************************************************************************)
MaxEpochs == 4
MaxLoss == 2
MaxSaveEpoch == 3

\* A float: a number, or not-a-number.
Float(x) == [nan |-> FALSE, v |-> x]
NaN == [nan |-> TRUE, v |-> 0]
Losses == {Float(x) : x \in 0..MaxLoss} \cup {NaN}

\* Float comparison: every comparison with NaN is false.
FloatLeq(a, b) == ~a.nan /\ ~b.nan /\ a.v <= b.v

\* Series.min(): the least value that is not NaN; NaN when there is none.
SeriesMin(col) ==
    LET nums == {col[k] : k \in 1..Len(col)} \ {NaN}
    IN  IF nums = {} THEN NaN
        ELSE CHOOSE m \in nums : \A x \in nums : m.v <= x.v

\* f"{model_path}/{name}.pth"
PthName(name) == name \o ".pth"

\* torch.save(model.state_dict(), name): the file holds the weights of the
\* model as trained so far, identified by the epoch that produced them.
TorchSave(fs, name, weights) == (name :> weights) @@ fs

SaveBestCond_Strict(col) ==
    LET last == col[Len(col)]
    IN  ~last.nan /\ \A k \in 1..(Len(col) - 1) : col[k].nan \/ last.v < col[k].v

\* line 167
SaveBestCond(col) == FloatLeq(col[Len(col)], SeriesMin(col))

CheckpointCond_OffByOne(e, k) == k # None /\ e % k[1] = 0

\* line 171
CheckpointCond(e, k) == k # None /\ (e + 1) % k[1] = 0

InitTrain ==
    /\ pc = "train"
    /\ df_hist = <<>>
    /\ epoch = 0
    /\ saveEpoch \in {None} \cup {Some(k) : k \in 0..MaxSaveEpoch}
    /\ files = <<>>
    /\ IdleProj /\ IdleOpt /\ IdleLog

\* The training loop: one more epoch, one more row of the history.
TrainEpoch ==
    /\ pc = "train"
    /\ Len(df_hist) < MaxEpochs
    /\ \E v \in Losses : df_hist' = Append(df_hist, v)
    /\ epoch' = Len(df_hist)
    /\ pc' = "save_best"
    /\ UNCHANGED <<saveEpoch, files, projVars, optVars, logVars>>

save_best_model ==
    /\ pc = "save_best"
    /\ files' = IF SaveBestCond(df_hist)
                THEN TorchSave(files, PthName("best"), epoch)
                ELSE files
    /\ pc' = "checkpoint"
    /\ UNCHANGED <<df_hist, epoch, saveEpoch, projVars, optVars, logVars>>

checkpoint_model ==
    /\ pc = "checkpoint"
    /\ IF saveEpoch # None /\ saveEpoch[1] = 0
       THEN pc' = "ZeroDivisionError" /\ files' = files
       ELSE /\ files' = IF CheckpointCond(epoch, saveEpoch)
                        THEN TorchSave(files, PthName(ToString(epoch)), epoch)
                        ELSE files
            /\ pc' = "train"
    /\ UNCHANGED <<df_hist, epoch, saveEpoch, projVars, optVars, logVars>>

NextTrain == TrainEpoch \/ save_best_model \/ checkpoint_model

SpecTrain == InitTrain /\ [][NextTrain]_vars

(***************************************************************************)
(* The optimizer and scheduler factories.  A str is a tuple of characters. *)
(***************************************************************************)
UpperCase ==
    <<"A", "B", "C", "D", "E", "F", "G", "H", "I", "J", "K", "L", "M", "N",
      "O", "P", "Q", "R", "S", "T", "U", "V", "W", "X", "Y", "Z">>
LowerCase ==
    <<"a", "b", "c", "d", "e", "f", "g", "h", "i", "j", "k", "l", "m", "n",
      "o", "p", "q", "r", "s", "t", "u", "v", "w", "x", "y", "z">>

\* str.lower()
Lower(str) ==
    [i \in 1..Len(str) |->
        IF \E k \in 1..Len(UpperCase) : UpperCase[k] = str[i]
        THEN LowerCase[CHOOSE k \in 1..Len(UpperCase) : UpperCase[k] = str[i]]
        ELSE str[i]]

\* a in b, for two str: a is a substring of b.
In(a, b) ==
    \E i \in 0..(Len(b) - Len(a)) : SubSeq(b, i + 1, i + Len(a)) = a

LowerIn_NoLower(name, literal) == In(name, literal)

\* cfg.<name>.lower() in <literal>
LowerIn(name, literal) == In(Lower(name), literal)

ADAM == <<"a", "d", "a", "m">>
SGD == <<"s", "g", "d">>
STEP == <<"s", "t", "e", "p">>
EXPONENTIAL == <<"e", "x", "p", "o", "n", "e", "n", "t", "i", "a", "l">>
COSINE == <<"c", "o", "s", "i", "n", "e">>

\* The values of cfg.optim and cfg.lrSched the model draws from.
OptimNames == {
    <<"a", "d", "a", "m">>, <<"A", "d", "a", "m">>, <<"A", "D", "A", "M">>,
    <<"s", "g", "d">>, <<"S", "G", "D">>, <<"a", "d", "a">>,
    <<"d", "a", "m">>, <<"d">>, <<>>, <<"s", "g">>,
    <<"a", "d", "a", "m", "w">>, <<"r", "m", "s", "p", "r", "o", "p">>,
    <<"s", "g", "d", "m">>, <<"a", "d", "a", "g", "r", "a", "d">> }
SchedNames == {
    <<>>, <<"s", "t", "e", "p">>, <<"S", "t", "e", "p">>,
    <<"e", "x", "p", "o", "n", "e", "n", "t", "i", "a", "l">>,
    <<"E", "x", "p", "o", "n", "e", "n", "t", "i", "a", "l">>,
    <<"c", "o", "s", "i", "n", "e">>, <<"C", "O", "S", "I", "N", "E">>,
    <<"n", "o", "n", "e">>, <<"N", "o", "n", "e">>, <<"s">>,
    <<"e", "x", "p">>, <<"o", "n">>, <<"s", "t", "e", "p", "l", "r">>,
    <<"p", "l", "a", "t", "e", "a", "u">>, <<"l", "i", "n", "e", "a", "r">> }

Configs ==
    [optim : OptimNames,
     trueWD : {None, Some("trueWD")},
     lrSched : {None} \cup {Some(n) : n \in SchedNames}]

Unbound == [bound |-> FALSE]
Bound(x) == [bound |-> TRUE, value |-> x]

\* The local variable opt of make_optimizer at line 146.
OptLocal(c) ==
    IF c.trueWD # None
    THEN IF LowerIn(c.optim, ADAM)
         THEN Bound([cls |-> "Adam", weight_decay |-> "0"])
         ELSE IF LowerIn(c.optim, SGD)
              THEN Bound([cls |-> "SGD", weight_decay |-> "0"])
              ELSE Unbound
    ELSE IF LowerIn(c.optim, ADAM)
         THEN Bound([cls |-> "Adam", weight_decay |-> "cfg.wd"])
         ELSE IF LowerIn(c.optim, SGD)
              THEN Bound([cls |-> "SGD", weight_decay |-> "cfg.wd"])
              ELSE Unbound

\* Python: not x, for x None or a str.
Falsy(x) == x = None \/ x[1] = <<>>

\* The local variables sched and statement of make_lr_scheduler at line 162;
\* both are bound by the same branch.
SchedLocal(c) ==
    IF LowerIn(c.lrSched[1], STEP) THEN Bound([cls |-> "StepLR"])
    ELSE IF LowerIn(c.lrSched[1], EXPONENTIAL)
         THEN Bound([cls |-> "ExponentialLR"])
         ELSE IF LowerIn(c.lrSched[1], COSINE)
              THEN Bound([cls |-> "CosineAnnealingLR"])
              ELSE Unbound

\* What a call produced: a returned value, or the exception it raised.
Returned(x) == [err |-> "none", value |-> x]
Raised(e) == [err |-> e, value |-> None]

InitOpt ==
    /\ pc = "make_optimizer"
    /\ cfg \in Configs
    /\ opt = None
    /\ sched = None
    /\ IdleProj /\ IdleTrain /\ IdleLog

make_optimizer ==
    /\ pc = "make_optimizer"
    /\ LET local == OptLocal(cfg)
       IN  IF local.bound
           THEN opt' = Returned(Some(local.value)) /\ pc' = "make_lr_scheduler"
           ELSE opt' = Raised("UnboundLocalError") /\ pc' = "error"
    /\ UNCHANGED <<cfg, sched, projVars, trainVars, logVars>>

make_lr_scheduler ==
    /\ pc = "make_lr_scheduler"
    /\ IF Falsy(cfg.lrSched)
       THEN sched' = Returned(None) /\ pc' = "done"
       ELSE LET local == SchedLocal(cfg)
            IN  IF local.bound
                THEN sched' = Returned(Some(local.value)) /\ pc' = "done"
                ELSE sched' = Raised("UnboundLocalError") /\ pc' = "error"
    /\ UNCHANGED <<cfg, opt, projVars, trainVars, logVars>>

NextOpt == make_optimizer \/ make_lr_scheduler

SpecOpt == InitOpt /\ [][NextOpt]_vars

(***************************************************************************)
(* The shared logger: make_logger.                                         *)
(***************************************************************************)
MaxCalls == 3

Paths == {"a", "b", "logs/run", "models/x/log"}

\* logging.getLogger(name): the logger of that name, created (fresh) by the
\* first call that asks for it.
GetLogger(dict, name, fresh) ==
    IF name \in DOMAIN dict THEN dict[name] ELSE fresh

HasHandlers_OwnOnly(own, root) == own # <<>>

\* Logger.hasHandlers(): this logger or an ancestor it propagates to (the
\* root logger) has a handler.
HasHandlers(own, root) == own # <<>> \/ root > 0

InitLog ==
    /\ pc = "run"
    /\ loggerDict = <<>>
    /\ handlers = <<>>
    /\ rootHandlers \in {0, 1}
    /\ level = "NOTSET"
    /\ calls = <<>>
    /\ returned = <<>>
    /\ IdleProj /\ IdleTrain /\ IdleOpt

make_logger ==
    /\ pc = "run"
    /\ Len(calls) < MaxCalls
    /\ \E PATH \in Paths :
        LET logger == GetLogger(loggerDict, "logger", Len(calls) + 1)
        IN  /\ loggerDict' = ("logger" :> logger) @@ loggerDict
            /\ level' = "DEBUG"
            /\ handlers' = IF ~HasHandlers(handlers, rootHandlers)
                           THEN Append(handlers, PATH \o ".log")
                           ELSE handlers
            /\ calls' = Append(calls, PATH)
            /\ returned' = Append(returned, logger)
    /\ UNCHANGED <<pc, rootHandlers, projVars, trainVars, optVars>>

NextLog == make_logger

SpecLog == InitLog /\ [][NextLog]_vars

(***************************************************************************)
(* Claims about training.                                                  *)
(***************************************************************************)
BestPth == PthName("best")
HasBest == BestPth \in DOMAIN files
LastLoss == df_hist[Len(df_hist)]
AfterSaveBest == pc = "checkpoint"

\* No recorded loss is less than x.
NothingBelow(x) ==
    \A k \in 1..Len(df_hist) : ~(~df_hist[k].nan /\ ~x.nan /\ df_hist[k].v < x.v)

\* The most recent (0-based) epoch among those in E.
MostRecent(E) == CHOOSE e \in E : \A f \in E : f <= e

\* C6 as stated: best.pth is written exactly when the latest val_loss is the
\* minimum of all val_loss values so far, so after every call best.pth holds
\* the weights of the most recent epoch whose val_loss is that minimum.
C6_Original ==
    AfterSaveBest =>
        /\ (HasBest /\ files[BestPth] = epoch) <=> NothingBelow(LastLoss)
        /\ HasBest
        /\ files[BestPth] =
               MostRecent({e \in 0..epoch : NothingBelow(df_hist[e + 1])})

NumEpochs == {e \in 0..(Len(df_hist) - 1) : ~df_hist[e + 1].nan}
MinEpochs == {e \in NumEpochs :
                 \A f \in NumEpochs : df_hist[e + 1].v <= df_hist[f + 1].v}

\* C6 amended: best.pth is written exactly when the latest val_loss is a
\* number (not NaN) and no number recorded so far is below it; after every
\* call best.pth holds the weights of the most recent epoch whose val_loss
\* is the minimum of the numbers recorded, and does not exist while every
\* recorded val_loss is NaN.
C6_BestIsRunningMin ==
    AfterSaveBest =>
        /\ (HasBest /\ files[BestPth] = epoch)
               <=> (~LastLoss.nan /\ epoch \in MinEpochs)
        /\ IF NumEpochs = {} THEN ~HasBest
           ELSE HasBest /\ files[BestPth] = MostRecent(MinEpochs)

\* A tie with an earlier epoch has overwritten best.pth.
C6_Witness ==
    /\ AfterSaveBest
    /\ epoch = 2
    /\ df_hist[1] = NaN
    /\ ~df_hist[2].nan /\ df_hist[3] = df_hist[2]
    /\ HasBest /\ files[BestPth] = 2

EpochFiles == DOMAIN files \ {BestPth}
\* The number of epochs checkpoint_model has been called for.
Checkpointed == IF pc = "train" THEN Len(df_hist) ELSE Len(df_hist) - 1
DueEpochs(k) == {e \in 0..(Checkpointed - 1) : (e + 1) % k = 0}

\* C7: with saveEpoch = k >= 1 the snapshots written are exactly the files
\* '<e>.pth' of the epochs e with (e+1) mod k = 0, floor(E/k) of them after E
\* epochs, each holding the weights of epoch e; with saveEpoch = None there
\* is none.
C7_PeriodicCheckpoint ==
    /\ saveEpoch = None => EpochFiles = {}
    /\ (saveEpoch # None /\ saveEpoch[1] >= 1) =>
           LET k == saveEpoch[1]
           IN  /\ EpochFiles = {PthName(ToString(e)) : e \in DueEpochs(k)}
               /\ \A e \in DueEpochs(k) : files[PthName(ToString(e))] = e
               /\ Cardinality(EpochFiles) = Checkpointed \div k

C7_Witness ==
    /\ pc = "train"
    /\ saveEpoch = Some(2)
    /\ Len(df_hist) = 4
    /\ EpochFiles = {"1.pth", "3.pth"}

(***************************************************************************)
(* Claims about the factories.                                             *)
(***************************************************************************)
OptimizerMade == opt # None
SchedulerMade == sched # None
ReturnedClass(r, cls) == r.err = "none" /\ r.value # None /\ r.value[1].cls = cls
SchedIs(name) == cfg.lrSched # None /\ Lower(cfg.lrSched[1]) = name
\* The name the claims give for "no scheduler".
NONE == <<"n", "o", "n", "e">>

C8_Selection ==
    /\ (OptimizerMade /\ Lower(cfg.optim) = ADAM) => ReturnedClass(opt, "Adam")
    /\ (OptimizerMade /\ Lower(cfg.optim) = SGD) => ReturnedClass(opt, "SGD")
    /\ (SchedulerMade /\ SchedIs(STEP)) => ReturnedClass(sched, "StepLR")
    /\ (SchedulerMade /\ SchedIs(EXPONENTIAL))
           => ReturnedClass(sched, "ExponentialLR")
    /\ (SchedulerMade /\ SchedIs(COSINE))
           => ReturnedClass(sched, "CosineAnnealingLR")

\* C8 as stated: the optimizer and the scheduler are selected by name, without
\* regard to case: Adam for 'adam', SGD for 'sgd', StepLR for 'step',
\* ExponentialLR for 'exponential', CosineAnnealingLR for 'cosine', and None,
\* without error, for 'none'.
C8_Original ==
    /\ C8_Selection
    /\ (SchedulerMade /\ SchedIs(NONE)) => sched = Returned(None)

\* C8 amended: as stated for the optimizers and the three schedulers; None is
\* returned, without error, when cfg.lrSched is None or the empty string,
\* while the name 'none' ends the call with UnboundLocalError.
C8_SelectionByName ==
    /\ C8_Selection
    /\ (SchedulerMade /\ Falsy(cfg.lrSched)) => sched = Returned(None)
    /\ (SchedulerMade /\ SchedIs(NONE)) => sched = Raised("UnboundLocalError")

C8_Witness ==
    /\ pc = "done"
    /\ cfg.optim = <<"A", "D", "A", "M">>
    /\ cfg.trueWD # None
    /\ ReturnedClass(opt, "Adam")
    /\ cfg.lrSched = None
    /\ sched = Returned(None)

\* C9: a name that is not a recognized one (optimizer: adam, sgd; scheduler:
\* step, exponential, cosine, none) binds nothing: the call ends with the
\* unbound-variable failure and returns no optimizer or scheduler.
C9_UnrecognizedUnbound ==
    /\ (OptimizerMade /\ Lower(cfg.optim) \notin {ADAM, SGD})
           => opt = Raised("UnboundLocalError")
    /\ (SchedulerMade /\ cfg.lrSched # None
            /\ Lower(cfg.lrSched[1]) \notin {STEP, EXPONENTIAL, COSINE, NONE})
           => sched = Raised("UnboundLocalError")

(***************************************************************************)
(* Claims about the logger.                                                *)
(***************************************************************************)
\* C10: after any sequence of make_logger calls the logger has at most one
\* file handler; it was added by the first call that found neither the logger
\* nor the root logger with a handler, it writes to that call's '<PATH>.log',
\* and every call returned the same logger object.
C10_SingleHandler ==
    /\ Len(handlers) <= 1
    /\ handlers = IF rootHandlers = 0 /\ calls # <<>>
                  THEN <<calls[1] \o ".log">>
                  ELSE <<>>
    /\ \A i, j \in 1..Len(returned) : returned[i] = returned[j]

C10_Witness ==
    /\ Len(calls) = 3
    /\ calls[1] = "a" /\ calls[2] = "b" /\ calls[3] = "logs/run"
    /\ handlers = <<"a.log">>
    /\ Len(returned) = 3

====
